---- MODULE Spec2Model ----
(***************************************************************************)
(* Model of pkg/controller/apiextensions/composite/composed/api.go:        *)
(* DefaultConfigurator.Configure, DefaultOverlayApplicator.Overlay,        *)
(* APIConnectionDetailsFetcher.Fetch and DefaultReadinessChecker.IsReady.  *)
(* Each operation is a synchronous call on one composed resource (cd);     *)
(* a behaviour is one call: the state before it, then the state after it   *)
(* together with the arguments it was given and the value it returned.     *)
(***************************************************************************)
EXTENDS Integers, Sequences, FiniteSets, TLC

VARIABLES
    cd,        \* the composed resource (child), mutated in place
    pre,       \* the composed resource as it was when the call was made
    cp,        \* labels of the composite (parent) passed to the call
    t,         \* the ComposedTemplate passed to the call
    store,     \* what the secret store answers to client.Get in this call
    ret,       \* what the call returned
    getCalls,  \* the client.Get calls made, in order
    applied    \* the Patch.Apply invocations made, in order

vars == <<cd, pre, cp, t, store, ret, getCalls, applied>>

---------------------------------------------------------------------------
(* Bounds *)
MaxPatches == 3
MaxDetails == 2
MaxChecks == 2

---------------------------------------------------------------------------
(* Constants of the source *)
errUnmarshal == "cannot unmarshal base template"
errFmtPatch == "cannot apply the patch at index %d"
errGetSecret == "cannot get connection secret of composed resource"
errNamePrefix == "name prefix is not found in labels"
errNotUnstructured == "composed resource has to be Unstructured type"
errSecretNameNotFound == "Secret name not found at path: "
errSecretNamespaceNotFound == "Secret namespace not found at path: "
errFmtUnknownType == "readiness check at index %d: an unknown type is chosen"

LabelKeyNamePrefixForComposed == "crossplane.io/composite"
LabelKeyClaimName == "crossplane.io/claim-name"
LabelKeyClaimNamespace == "crossplane.io/claim-namespace"

ReadinessCheckNonEmpty == "NonEmpty"
ReadinessCheckMatchString == "MatchString"
ReadinessCheckMatchInteger == "MatchInteger"

---------------------------------------------------------------------------
(* Go values *)

\* a nil error
NoError == "nil"

\* a *string: nil, or a pointer to s
NilString == [set |-> FALSE, s |-> ""]
StringPtr(s) == [set |-> TRUE, s |-> s]

\* an interface{} value held in an unstructured document: absent, a string
\* or a number
NoValue == [k |-> "none", s |-> "", n |-> 0]
StringValue(s) == [k |-> "string", s |-> s, n |-> 0]
NumberValue(n) == [k |-> "number", s |-> "", n |-> n]

\* a map[string]string is a function whose domain is the keys present
EmptyMap == [k \in {} |-> ""]
MapSet(m, key, val) == [k \in (DOMAIN m) \cup {key} |-> IF k = key THEN val ELSE m[k]]
\* the maps over some of the keys of vals, each key with one of its values
MapsOver(vals) ==
    UNION {{m \in [S -> UNION {vals[k] : k \in S}] : \A k \in S : m[k] \in vals[k]} :
              S \in SUBSET DOMAIN vals}

\* m[key] of Go on a map: the zero value when the key is absent
MapGet(m, key) == IF key \in DOMAIN m THEN m[key] ELSE ""

\* a *SecretReference: nil, or a pointer to {Name, Namespace}
NilRef == [set |-> FALSE, name |-> "", namespace |-> ""]
SecretReference(name, namespace) == [set |-> TRUE, name |-> name, namespace |-> namespace]

Paths == {"a", "b"}
EmptyDoc == [p \in Paths |-> NoValue]

---------------------------------------------------------------------------
(* The value returned by a call *)
NoCall ==
    [op |-> "none", err |-> NoError, idx |-> -1, panicked |-> FALSE,
     ready |-> FALSE, connNil |-> TRUE, conn |-> EmptyMap]

NoTemplate ==
    [base |-> [valid |-> TRUE, hasName |-> FALSE, name |-> "", labels |-> EmptyMap, doc |-> EmptyDoc],
     patches |-> <<>>, connectionDetails |-> <<>>, readinessChecks |-> <<>>,
     connectionSecretRef |-> [set |-> FALSE, NamePath |-> "", NamespacePath |-> ""]]

NoStore == [status |-> "ok", data |-> EmptyMap]

---------------------------------------------------------------------------
(* Configure *)

\* json.Unmarshal(t.Base.Raw, cd). An Unstructured child is replaced by the
\* decoded object (what the base does not carry is dropped); any other
\* child is a struct, in which only the fields the base carries are set and
\* the labels map is added to.
Unmarshal(base, c) ==
    IF ~base.valid THEN [ok |-> FALSE, cd |-> c]
    ELSE IF c.kind = "Unstructured"
    THEN [ok |-> TRUE,
          cd |-> [c EXCEPT !.name = IF base.hasName THEN base.name ELSE "",
                           !.generateName = "",
                           !.namespace = "",
                           !.labels = base.labels,
                           !.doc = base.doc,
                           !.ref = NilRef,
                           !.ready = FALSE]]
    ELSE [ok |-> TRUE,
          cd |-> [c EXCEPT !.name = IF base.hasName THEN base.name ELSE c.name,
                           !.labels = [k \in (DOMAIN c.labels) \cup (DOMAIN base.labels) |->
                                          IF k \in DOMAIN base.labels THEN base.labels[k]
                                          ELSE c.labels[k]],
                           !.doc = [p \in Paths |-> IF base.doc[p] # NoValue THEN base.doc[p]
                                                    ELSE c.doc[p]]]]

\* a bug AddLabels could have: an existing label is kept
AddLabels_KeepExisting(c, added) ==
    [c EXCEPT !.labels = [k \in (DOMAIN c.labels) \cup (DOMAIN added) |->
                             IF k \in DOMAIN c.labels THEN c.labels[k] ELSE added[k]]]

\* meta.AddLabels(cd, added)
AddLabels(c, added) ==
    [c EXCEPT !.labels = [k \in (DOMAIN c.labels) \cup (DOMAIN added) |->
                             IF k \in DOMAIN added THEN added[k] ELSE c.labels[k]]]

LineageLabels(parent) ==
    [k \in {LabelKeyNamePrefixForComposed, LabelKeyClaimName, LabelKeyClaimNamespace} |->
        MapGet(parent, k)]

\* a bug Configure could have: the name is not restored after unmarshalling
Configure_NoRestore(parent, c, tmpl) ==
    LET namespace == IF c.namespace = "" THEN MapGet(parent, LabelKeyClaimNamespace)
                     ELSE c.namespace
        u == Unmarshal(tmpl.base, c)
    IN  IF ~u.ok THEN [err |-> errUnmarshal, cd |-> u.cd]
        ELSE IF MapGet(parent, LabelKeyNamePrefixForComposed) = ""
        THEN [err |-> errNamePrefix, cd |-> u.cd]
        ELSE [err |-> NoError,
              cd |-> [AddLabels(u.cd, LineageLabels(parent)) EXCEPT
                         !.generateName = MapGet(parent, LabelKeyNamePrefixForComposed) \o "-",
                         !.namespace = namespace]]

\* DefaultConfigurator.Configure: the error returned and the child it leaves
Configure(parent, c, tmpl) ==
    LET name == c.name
        namespace == IF c.namespace = "" THEN MapGet(parent, LabelKeyClaimNamespace)
                     ELSE c.namespace
        u == Unmarshal(tmpl.base, c)
    IN  IF ~u.ok THEN [err |-> errUnmarshal, cd |-> u.cd]
        ELSE IF MapGet(parent, LabelKeyNamePrefixForComposed) = ""
        THEN [err |-> errNamePrefix, cd |-> u.cd]
        ELSE [err |-> NoError,
              cd |-> [AddLabels(u.cd, LineageLabels(parent)) EXCEPT
                         !.generateName = MapGet(parent, LabelKeyNamePrefixForComposed) \o "-",
                         !.name = name,
                         !.namespace = namespace]]

---------------------------------------------------------------------------
(* Overlay *)

\* Patch.Apply(cp, cd): the patch copies the parent's value at p.from to the
\* child's document at p.to, and fails, leaving the document as it is, when
\* the parent has no such value.
PatchApply(p, parent, doc) ==
    IF p.from \notin DOMAIN parent THEN [ok |-> FALSE, doc |-> doc]
    ELSE [ok |-> TRUE, doc |-> [doc EXCEPT ![p.to] = StringValue(parent[p.from])]]

\* what one iteration of the loop adds to the record of Apply invocations
Applied(i, doc, r) == [idx |-> i, seen |-> doc, ok |-> r.ok, out |-> r.doc]

\* a bug Overlay could have: a failing patch is skipped and the loop goes on
RECURSIVE OverlayFrom_SkipFailed(_, _, _, _, _)
OverlayFrom_SkipFailed(parent, doc, patches, i, log) ==
    IF i >= Len(patches) THEN [err |-> NoError, idx |-> -1, doc |-> doc, log |-> log]
    ELSE LET r == PatchApply(patches[i + 1], parent, doc)
         IN  OverlayFrom_SkipFailed(parent, r.doc, patches, i + 1,
                                    Append(log, Applied(i, doc, r)))

\* the loop of Overlay from index i (0-based, as in the source) on
RECURSIVE OverlayFrom(_, _, _, _, _)
OverlayFrom(parent, doc, patches, i, log) ==
    IF i >= Len(patches) THEN [err |-> NoError, idx |-> -1, doc |-> doc, log |-> log]
    ELSE LET r == PatchApply(patches[i + 1], parent, doc)
         IN  IF ~r.ok
             THEN [err |-> errFmtPatch, idx |-> i, doc |-> r.doc,
                   log |-> Append(log, Applied(i, doc, r))]
             ELSE OverlayFrom(parent, r.doc, patches, i + 1, Append(log, Applied(i, doc, r)))

\* DefaultOverlayApplicator.Overlay
Overlay(parent, c, tmpl) == OverlayFrom(parent, c.doc, tmpl.patches, 0, <<>>)

---------------------------------------------------------------------------
(* Fetch *)

\* paved.GetValue(path): the value, or a not-found error
GetValue(doc, path) ==
    IF doc[path] = NoValue THEN [found |-> FALSE, v |-> NoValue]
    ELSE [found |-> TRUE, v |-> doc[path]]

\* v == "" for an interface{} v: true only of the empty string
IsEmptyString(v) == v.k = "string" /\ v.s = ""

\* a bug the resolver could have: the child's own reference is preferred
getWriteConnectionSecretToReference_OwnFirst(c, tmpl) ==
    IF ~tmpl.connectionSecretRef.set \/ c.ref.set
    THEN [err |-> NoError, panicked |-> FALSE, sref |-> c.ref]
    ELSE IF c.kind # "Unstructured"
    THEN [err |-> errNotUnstructured, panicked |-> FALSE, sref |-> NilRef]
    ELSE LET name == GetValue(c.doc, tmpl.connectionSecretRef.NamePath)
             namespace == GetValue(c.doc, tmpl.connectionSecretRef.NamespacePath)
         IN  IF ~name.found
             THEN [err |-> errSecretNameNotFound, panicked |-> FALSE, sref |-> NilRef]
             ELSE IF ~namespace.found
             THEN [err |-> errSecretNamespaceNotFound, panicked |-> FALSE, sref |-> NilRef]
             ELSE IF IsEmptyString(name.v) \/ IsEmptyString(namespace.v)
             THEN [err |-> NoError, panicked |-> FALSE, sref |-> NilRef]
             ELSE IF name.v.k # "string" \/ namespace.v.k # "string"
             THEN [err |-> NoError, panicked |-> TRUE, sref |-> NilRef]
             ELSE [err |-> NoError, panicked |-> FALSE,
                   sref |-> SecretReference(name.v.s, namespace.v.s)]

\* getWriteConnectionSecretToReference: the reference and error returned;
\* name.(string) and namespace.(string) panic on a value that is no string
getWriteConnectionSecretToReference(c, tmpl) ==
    IF ~tmpl.connectionSecretRef.set
    THEN [err |-> NoError, panicked |-> FALSE, sref |-> c.ref]
    ELSE IF c.kind # "Unstructured"
    THEN [err |-> errNotUnstructured, panicked |-> FALSE, sref |-> NilRef]
    ELSE LET name == GetValue(c.doc, tmpl.connectionSecretRef.NamePath)
             namespace == GetValue(c.doc, tmpl.connectionSecretRef.NamespacePath)
         IN  IF ~name.found
             THEN [err |-> errSecretNameNotFound, panicked |-> FALSE, sref |-> NilRef]
             ELSE IF ~namespace.found
             THEN [err |-> errSecretNamespaceNotFound, panicked |-> FALSE, sref |-> NilRef]
             ELSE IF IsEmptyString(name.v) \/ IsEmptyString(namespace.v)
             THEN [err |-> NoError, panicked |-> FALSE, sref |-> NilRef]
             ELSE IF name.v.k # "string" \/ namespace.v.k # "string"
             THEN [err |-> NoError, panicked |-> TRUE, sref |-> NilRef]
             ELSE [err |-> NoError, panicked |-> FALSE,
                   sref |-> SecretReference(name.v.s, namespace.v.s)]

\* cdf.client.Get(ctx, nn, s): the error, and the data s holds afterwards
\* (s stays the empty Secret unless the secret was read)
ClientGet(st) ==
    IF st.status = "ok" THEN [err |-> NoError, notFound |-> FALSE, data |-> st.data]
    ELSE [err |-> st.status, notFound |-> st.status = "notfound", data |-> EmptyMap]

\* a bug the mapping loop could have: the first write of a key wins
RECURSIVE ConnectionDetailsFrom_FirstWins(_, _, _, _)
ConnectionDetailsFrom_FirstWins(details, data, i, conn) ==
    IF i > Len(details) THEN conn
    ELSE LET d == details[i]
             put(key, val) == IF key \in DOMAIN conn THEN conn ELSE MapSet(conn, key, val)
         IN  IF d.Name.set /\ d.Value.set
             THEN ConnectionDetailsFrom_FirstWins(details, data, i + 1, put(d.Name.s, d.Value.s))
             ELSE IF ~d.FromConnectionSecretKey.set
             THEN ConnectionDetailsFrom_FirstWins(details, data, i + 1, conn)
             ELSE IF Len(MapGet(data, d.FromConnectionSecretKey.s)) = 0
             THEN ConnectionDetailsFrom_FirstWins(details, data, i + 1, conn)
             ELSE LET key == IF d.Name.set THEN d.Name.s ELSE d.FromConnectionSecretKey.s
                  IN  ConnectionDetailsFrom_FirstWins(details, data, i + 1,
                          put(key, data[d.FromConnectionSecretKey.s]))

\* the loop over t.ConnectionDetails from the i-th spec on; data is s.Data
\* (byte slices are modelled by strings, a missing key reads as length 0)
RECURSIVE ConnectionDetailsFrom(_, _, _, _)
ConnectionDetailsFrom(details, data, i, conn) ==
    IF i > Len(details) THEN conn
    ELSE LET d == details[i]
         IN  IF d.Name.set /\ d.Value.set
             THEN ConnectionDetailsFrom(details, data, i + 1, MapSet(conn, d.Name.s, d.Value.s))
             ELSE IF ~d.FromConnectionSecretKey.set
             THEN ConnectionDetailsFrom(details, data, i + 1, conn)
             ELSE IF Len(MapGet(data, d.FromConnectionSecretKey.s)) = 0
             THEN ConnectionDetailsFrom(details, data, i + 1, conn)
             ELSE LET key == IF d.Name.set THEN d.Name.s ELSE d.FromConnectionSecretKey.s
                  IN  ConnectionDetailsFrom(details, data, i + 1,
                          MapSet(conn, key, data[d.FromConnectionSecretKey.s]))

FetchResult(err, panicked, connNil, conn, calls) ==
    [err |-> err, panicked |-> panicked, connNil |-> connNil, conn |-> conn, calls |-> calls]

\* a bug Fetch could have: a secret that is not found is an error
Fetch_NotFoundFatal(c, tmpl, st) ==
    LET r == getWriteConnectionSecretToReference(c, tmpl)
    IN  IF r.panicked THEN FetchResult(NoError, TRUE, TRUE, EmptyMap, <<>>)
        ELSE IF r.err # NoError THEN FetchResult(r.err, FALSE, TRUE, EmptyMap, <<>>)
        ELSE IF ~r.sref.set THEN FetchResult(NoError, FALSE, TRUE, EmptyMap, <<>>)
        ELSE LET nn == [Namespace |-> r.sref.namespace, Name |-> r.sref.name]
                 g == ClientGet(st)
             IN  IF g.err # NoError
                 THEN FetchResult(errGetSecret, FALSE, TRUE, EmptyMap, <<nn>>)
                 ELSE FetchResult(NoError, FALSE, FALSE,
                          ConnectionDetailsFrom(tmpl.connectionDetails, g.data, 1, EmptyMap),
                          <<nn>>)

\* APIConnectionDetailsFetcher.Fetch
Fetch(c, tmpl, st) ==
    LET r == getWriteConnectionSecretToReference(c, tmpl)
    IN  IF r.panicked THEN FetchResult(NoError, TRUE, TRUE, EmptyMap, <<>>)
        ELSE IF r.err # NoError THEN FetchResult(r.err, FALSE, TRUE, EmptyMap, <<>>)
        ELSE IF ~r.sref.set THEN FetchResult(NoError, FALSE, TRUE, EmptyMap, <<>>)
        ELSE LET nn == [Namespace |-> r.sref.namespace, Name |-> r.sref.name]
                 g == ClientGet(st)
             IN  IF g.err # NoError /\ ~g.notFound
                 THEN FetchResult(errGetSecret, FALSE, TRUE, EmptyMap, <<nn>>)
                 ELSE FetchResult(NoError, FALSE, FALSE,
                          ConnectionDetailsFrom(tmpl.connectionDetails, g.data, 1, EmptyMap),
                          <<nn>>)

---------------------------------------------------------------------------
(* IsReady *)

errNotFound == "no such field"
errNotString == "not a string"
errNotNumber == "not a (int64) number"

\* paved.GetString(path)
GetString(doc, path) ==
    LET g == GetValue(doc, path)
    IN  IF ~g.found THEN [err |-> errNotFound, val |-> ""]
        ELSE IF g.v.k # "string" THEN [err |-> errNotString, val |-> ""]
        ELSE [err |-> NoError, val |-> g.v.s]

\* paved.GetInteger(path)
GetInteger(doc, path) ==
    LET g == GetValue(doc, path)
    IN  IF ~g.found THEN [err |-> errNotFound, val |-> 0]
        ELSE IF g.v.k # "number" THEN [err |-> errNotNumber, val |-> 0]
        ELSE [err |-> NoError, val |-> g.v.n]

\* fieldpath.IsNotFound(err)
IsNotFound(err) == err = errNotFound

\* resource.Ignore(fieldpath.IsNotFound, err)
IgnoreNotFound(err) == IF IsNotFound(err) THEN NoError ELSE err

\* one case of the switch on check.Type: returned tells whether IsReady
\* returns from inside the case, with err; otherwise ready is the flag set
CheckCase(doc, check, i) ==
    IF check.Type = ReadinessCheckNonEmpty
    THEN LET err == IF GetValue(doc, check.FieldPath).found THEN NoError ELSE errNotFound
         IN  IF IgnoreNotFound(err) # NoError
             THEN [returned |-> TRUE, err |-> err, idx |-> -1, ready |-> FALSE]
             ELSE [returned |-> FALSE, err |-> NoError, idx |-> -1, ready |-> ~IsNotFound(err)]
    ELSE IF check.Type = ReadinessCheckMatchString
    THEN LET g == GetString(doc, check.FieldPath)
         IN  IF IgnoreNotFound(g.err) # NoError
             THEN [returned |-> TRUE, err |-> g.err, idx |-> -1, ready |-> FALSE]
             ELSE [returned |-> FALSE, err |-> NoError, idx |-> -1,
                   ready |-> ~IsNotFound(g.err) /\ g.val = check.MatchString]
    ELSE IF check.Type = ReadinessCheckMatchInteger
    THEN LET g == GetInteger(doc, check.FieldPath)
         IN  IF g.err # NoError
             THEN [returned |-> TRUE, err |-> g.err, idx |-> -1, ready |-> FALSE]
             ELSE [returned |-> FALSE, err |-> NoError, idx |-> -1,
                   ready |-> ~IsNotFound(g.err) /\ g.val = check.MatchInteger]
    ELSE [returned |-> TRUE, err |-> errFmtUnknownType, idx |-> i, ready |-> FALSE]

\* the loop over t.ReadinessChecks from index i (0-based) on
RECURSIVE ChecksFrom(_, _, _)
ChecksFrom(doc, checks, i) ==
    IF i >= Len(checks) THEN [ready |-> TRUE, err |-> NoError, idx |-> -1]
    ELSE LET c == CheckCase(doc, checks[i + 1], i)
         IN  IF c.returned THEN [ready |-> FALSE, err |-> c.err, idx |-> c.idx]
             ELSE IF ~c.ready THEN [ready |-> FALSE, err |-> NoError, idx |-> -1]
             ELSE ChecksFrom(doc, checks, i + 1)

\* DefaultReadinessChecker.IsReady
IsReady(c, tmpl) ==
    IF Len(tmpl.readinessChecks) = 0 THEN [ready |-> c.ready, err |-> NoError, idx |-> -1]
    ELSE IF c.kind # "Unstructured"
    THEN [ready |-> FALSE, err |-> errNotUnstructured, idx |-> -1]
    ELSE ChecksFrom(c.doc, tmpl.readinessChecks, 0)

---------------------------------------------------------------------------
(* Inputs *)

ParentLabelValues ==
    [k \in {LabelKeyNamePrefixForComposed, LabelKeyClaimName, LabelKeyClaimNamespace} |->
        IF k = LabelKeyNamePrefixForComposed THEN {"", "p"}
        ELSE IF k = LabelKeyClaimName THEN {"", "c"}
        ELSE {"cns"}]

Parents == MapsOver(ParentLabelValues)

BaseLabelValues ==
    [k \in {LabelKeyNamePrefixForComposed, LabelKeyClaimName, "app"} |->
        IF k = "app" THEN {"web"} ELSE {"stale"}]

BaseDocs == {EmptyDoc, [EmptyDoc EXCEPT !["a"] = StringValue("s")]}

Bases ==
    {[valid |-> FALSE, hasName |-> FALSE, name |-> "", labels |-> EmptyMap, doc |-> EmptyDoc]}
    \cup
    {[valid |-> TRUE, hasName |-> n # "", name |-> n, labels |-> l, doc |-> d] :
        n \in {"", "y"},
        l \in MapsOver(BaseLabelValues),
        d \in BaseDocs}

Child(kind, name, generateName, namespace, labels, doc, ref, ready) ==
    [kind |-> kind, name |-> name, generateName |-> generateName, namespace |-> namespace,
     labels |-> labels, doc |-> doc, ref |-> ref, ready |-> ready]

\* children handed to Configure: fresh or already configured once, named or not
ConfigureChildren ==
    {Child(kind, name, gn, ns, l, EmptyDoc, NilRef, FALSE) :
        kind \in {"Unstructured", "Typed"},
        name \in {"", "x"},
        gn \in {"", "old-"},
        ns \in {"", "n"},
        l \in {EmptyMap, MapSet(MapSet(EmptyMap, LabelKeyNamePrefixForComposed, "old"), "keep", "1")}}

SeqsUpTo(S, n) == UNION {[1..m -> S] : m \in 0..n}

Patches ==
    {[from |-> f, to |-> p] :
        f \in {LabelKeyNamePrefixForComposed, LabelKeyClaimName}, p \in Paths}

OverlayParents == {m \in Parents : LabelKeyClaimNamespace \notin DOMAIN m}

\* the labels of a child that Configure has configured
ConfiguredLabels == LineageLabels(MapSet(EmptyMap, LabelKeyNamePrefixForComposed, "p"))

\* children handed to Overlay: configured, with the document of their base
OverlayChildren ==
    {Child("Unstructured", "x", "p-", "n", ConfiguredLabels, d, NilRef, FALSE) :
        d \in [Paths -> {NoValue, StringValue("s"), NumberValue(5)}]}

ConnectionDetailSpecs ==
    {[Name |-> n, Value |-> v, FromConnectionSecretKey |-> f] :
        n \in {NilString, StringPtr("k")},
        v \in {NilString, StringPtr("v")},
        f \in {NilString, StringPtr("k"), StringPtr("j")}}

SecretDataValues == [k \in {"k", "j"} |-> IF k = "k" THEN {"", "dk"} ELSE {"dj"}]

Stores ==
    {[status |-> "notfound", data |-> EmptyMap], [status |-> "failed", data |-> EmptyMap]}
    \cup {[status |-> "ok", data |-> d] : d \in MapsOver(SecretDataValues)}

ConnectionSecretRefs ==
    {NoTemplate.connectionSecretRef, [set |-> TRUE, NamePath |-> "a", NamespacePath |-> "b"]}

OwnRefs == {NilRef, SecretReference("own", "ownns")}

\* children handed to Fetch: configured and patched, with any document
FetchChildren ==
    {Child("Unstructured", "x", "p-", "n", ConfiguredLabels, d, r, FALSE) :
        d \in [Paths -> {NoValue, StringValue(""), StringValue("s"), StringValue("u"),
                         NumberValue(5)}],
        r \in OwnRefs}
    \cup
    {Child("Typed", "x", "p-", "n", ConfiguredLabels, EmptyDoc, r, FALSE) : r \in OwnRefs}

ReadinessChecks ==
    {[Type |-> ty, FieldPath |-> p, MatchString |-> "s", MatchInteger |-> 5] :
        ty \in {ReadinessCheckNonEmpty, ReadinessCheckMatchString, ReadinessCheckMatchInteger,
                "Other"},
        p \in Paths}

\* children handed to IsReady: configured and patched, with any document
ReadyChildren ==
    {Child("Unstructured", "x", "p-", "n", ConfiguredLabels, d, NilRef, r) :
        d \in [Paths -> {NoValue, StringValue("s"), StringValue("u"), NumberValue(5),
                         NumberValue(7)}],
        r \in BOOLEAN}
    \cup
    {Child("Typed", "x", "p-", "n", ConfiguredLabels, EmptyDoc, NilRef, r) :
        r \in BOOLEAN}

---------------------------------------------------------------------------
(* Specification *)

Idle(children) ==
    /\ cd \in children
    /\ pre = cd
    /\ cp = EmptyMap
    /\ t = NoTemplate
    /\ store = NoStore
    /\ ret = NoCall
    /\ getCalls = <<>>
    /\ applied = <<>>

InitConfigure == Idle(ConfigureChildren)

ConfigureStep ==
    /\ ret.op = "none"
    /\ \E parent \in Parents, base \in Bases :
         LET tmpl == [NoTemplate EXCEPT !.base = base]
             r == Configure(parent, cd, tmpl)
         IN  /\ cp' = parent
             /\ t' = tmpl
             /\ pre' = cd
             /\ cd' = r.cd
             /\ ret' = [NoCall EXCEPT !.op = "Configure", !.err = r.err]
    /\ UNCHANGED <<store, getCalls, applied>>

InitOverlay == Idle(OverlayChildren)

OverlayStep ==
    /\ ret.op = "none"
    /\ \E parent \in OverlayParents, patches \in SeqsUpTo(Patches, MaxPatches) :
         LET tmpl == [NoTemplate EXCEPT !.patches = patches]
             r == Overlay(parent, cd, tmpl)
         IN  /\ cp' = parent
             /\ t' = tmpl
             /\ pre' = cd
             /\ cd' = [cd EXCEPT !.doc = r.doc]
             /\ applied' = r.log
             /\ ret' = [NoCall EXCEPT !.op = "Overlay", !.err = r.err, !.idx = r.idx]
    /\ UNCHANGED <<store, getCalls>>

InitFetch == Idle(FetchChildren)

FetchStep ==
    /\ ret.op = "none"
    /\ \E csr \in ConnectionSecretRefs, st \in Stores,
          details \in SeqsUpTo(ConnectionDetailSpecs, MaxDetails) :
         LET tmpl == [NoTemplate EXCEPT !.connectionSecretRef = csr,
                                        !.connectionDetails = details]
             r == Fetch(cd, tmpl, st)
         IN  /\ t' = tmpl
             /\ store' = st
             /\ pre' = cd
             /\ getCalls' = r.calls
             /\ ret' = [NoCall EXCEPT !.op = "Fetch", !.err = r.err, !.panicked = r.panicked,
                                      !.connNil = r.connNil, !.conn = r.conn]
    /\ UNCHANGED <<cd, cp, applied>>

InitReady == Idle(ReadyChildren)

IsReadyStep ==
    /\ ret.op = "none"
    /\ \E checks \in SeqsUpTo(ReadinessChecks, MaxChecks) :
         LET tmpl == [NoTemplate EXCEPT !.readinessChecks = checks]
             r == IsReady(cd, tmpl)
         IN  /\ t' = tmpl
             /\ pre' = cd
             /\ ret' = [NoCall EXCEPT !.op = "IsReady", !.err = r.err, !.idx = r.idx,
                                      !.ready = r.ready]
    /\ UNCHANGED <<cd, cp, store, getCalls, applied>>

Init == InitConfigure \/ InitOverlay \/ InitFetch \/ InitReady

Next == ConfigureStep \/ OverlayStep \/ FetchStep \/ IsReadyStep

Spec == Init /\ [][Next]_vars

---------------------------------------------------------------------------
(* Properties *)

\* C1: when the parent's name-prefix label is absent or empty, Configure
\* (given a base that unmarshals, with a metadata.name of its own or none)
\* returns the missing-name-prefix error and leaves the child's name as it
\* was before the call.
C1_MissingPrefixKeepsName ==
    (ret.op = "Configure" /\ MapGet(cp, LabelKeyNamePrefixForComposed) = "" /\ t.base.valid)
        => (ret.err = errNamePrefix /\ cd.name = pre.name)

\* C2: with a non-empty name-prefix label and a base that unmarshals,
\* Configure returns nil, the child's name is the one it had before the call
\* and its generateName is the name-prefix label followed by "-".
C2_NamePreserved ==
    (ret.op = "Configure" /\ MapGet(cp, LabelKeyNamePrefixForComposed) # "" /\ t.base.valid)
        => /\ ret.err = NoError
           /\ cd.name = pre.name
           /\ cd.generateName = cp[LabelKeyNamePrefixForComposed] \o "-"

C2_Witness ==
    /\ ret.op = "Configure" /\ ret.err = NoError
    /\ pre.name = "x" /\ t.base.hasName /\ t.base.name = "y"
    /\ cd.name = "x" /\ cd.generateName = "p-"

\* C3: after a successful Configure the child's three lineage labels equal
\* the parent's values ("" where the parent has none), also where the base
\* carried a label of that name, and the base's other labels are kept.
C3_LabelPropagation ==
    (ret.op = "Configure" /\ ret.err = NoError)
        => /\ \A k \in {LabelKeyNamePrefixForComposed, LabelKeyClaimName, LabelKeyClaimNamespace} :
                /\ k \in DOMAIN cd.labels
                /\ cd.labels[k] = (IF k \in DOMAIN cp THEN cp[k] ELSE "")
           /\ \A k \in DOMAIN t.base.labels :
                k \notin {LabelKeyNamePrefixForComposed, LabelKeyClaimName, LabelKeyClaimNamespace}
                    => (k \in DOMAIN cd.labels /\ cd.labels[k] = t.base.labels[k])

C3_Witness ==
    /\ ret.op = "Configure" /\ ret.err = NoError
    /\ DOMAIN t.base.labels = {LabelKeyNamePrefixForComposed, LabelKeyClaimName, "app"}
    /\ LabelKeyClaimName \notin DOMAIN cp
    /\ cd.labels[LabelKeyNamePrefixForComposed] = "p"
    /\ cd.labels[LabelKeyClaimName] = ""
    /\ cd.labels["app"] = "web"

\* C4: Overlay invokes the patches in index order, each on the document the
\* previous one left; it stops at the first failing patch k, returning the
\* error with index k, with patches 0..k-1 applied and none after k invoked;
\* if none fails all are applied once and nil is returned.
C4_PatchOrder ==
    ret.op = "Overlay"
        => LET n == Len(t.patches)
               m == Len(applied)
           IN  /\ m <= n
               /\ \A j \in 1..m :
                    /\ applied[j].idx = j - 1
                    /\ applied[j].seen = (IF j = 1 THEN pre.doc ELSE applied[j - 1].out)
                    /\ [ok |-> applied[j].ok, doc |-> applied[j].out]
                          = PatchApply(t.patches[j], cp, applied[j].seen)
                    /\ (j < m => applied[j].ok)
               /\ IF \E j \in 1..m : ~applied[j].ok
                  THEN ret.err = errFmtPatch /\ ret.idx = m - 1
                  ELSE m = n /\ ret.err = NoError
               /\ cd.doc = (IF m = 0 THEN pre.doc ELSE applied[m].out)

C4_Witness ==
    /\ ret.op = "Overlay" /\ Len(t.patches) = 3
    /\ ret.err = errFmtPatch /\ ret.idx = 1
    /\ Len(applied) = 2 /\ applied[1].ok
    /\ cd.doc # pre.doc
    /\ t.patches[3].from \in DOMAIN cp

\* C5 (as claimed): when the Get reports not found, Fetch returns no error
\* and a ConnectionDetails that is non-nil and empty, whatever the list of
\* connection detail specs.
C5_NotFoundGivesEmpty ==
    (ret.op = "Fetch" /\ Len(getCalls) = 1 /\ store.status = "notfound")
        => (ret.err = NoError /\ ~ret.panicked /\ ~ret.connNil /\ DOMAIN ret.conn = {})

\* C5 (amended): when the Get reports not found, Fetch returns no error and
\* a non-nil ConnectionDetails that holds exactly the entries of the literal
\* name/value specs, the last one of a name winning.
C5_NotFoundGivesLiterals ==
    (ret.op = "Fetch" /\ Len(getCalls) = 1 /\ store.status = "notfound")
        => LET ds == t.connectionDetails
               Literals == {i \in 1..Len(ds) : ds[i].Name.set /\ ds[i].Value.set}
           IN  /\ ret.err = NoError /\ ~ret.panicked /\ ~ret.connNil
               /\ DOMAIN ret.conn = {ds[i].Name.s : i \in Literals}
               /\ \A i \in Literals :
                    (\A j \in Literals : j > i => ds[j].Name.s # ds[i].Name.s)
                        => ret.conn[ds[i].Name.s] = ds[i].Value.s

C5_Witness ==
    /\ ret.op = "Fetch" /\ Len(getCalls) = 1 /\ store.status = "notfound"
    /\ Len(t.connectionDetails) = 2
    /\ t.connectionDetails[1].Name.set /\ t.connectionDetails[1].Value.set
    /\ ~t.connectionDetails[2].Name.set /\ t.connectionDetails[2].FromConnectionSecretKey.set
    /\ ret.err = NoError /\ ~ret.connNil
    /\ DOMAIN ret.conn = {"k"} /\ ret.conn["k"] = "v"

\* C6: when connectionSecretRef is set and one of its paths resolves to a
\* value that is not a string, Fetch returns an error to its caller: it does
\* not panic, does not call the secret store and does not return (nil, nil).
C6_NonStringRefIsError ==
    (/\ ret.op = "Fetch" /\ t.connectionSecretRef.set /\ pre.kind = "Unstructured"
     /\ pre.doc[t.connectionSecretRef.NamePath] # NoValue
     /\ pre.doc[t.connectionSecretRef.NamespacePath] # NoValue
     /\ \/ pre.doc[t.connectionSecretRef.NamePath].k # "string"
        \/ pre.doc[t.connectionSecretRef.NamespacePath].k # "string")
        => (~ret.panicked /\ ret.err # NoError /\ getCalls = <<>>)

\* C7: for each of the three check types, a field path that is absent from
\* the document makes the check unmet, not an error: IsReady returns
\* (false, nil).
C7_AbsentFieldIsUnmet ==
    (/\ ret.op = "IsReady" /\ pre.kind = "Unstructured"
     /\ Len(t.readinessChecks) >= 1
     /\ t.readinessChecks[1].Type \in
            {ReadinessCheckNonEmpty, ReadinessCheckMatchString, ReadinessCheckMatchInteger}
     /\ pre.doc[t.readinessChecks[1].FieldPath] = NoValue)
        => (ret.ready = FALSE /\ ret.err = NoError)

\* C8: with a non-empty list the first check that does not pass decides:
\* (true, nil) iff all pass, (false, nil) if that check is unmet (its field
\* absent or its value different), an error if it is a hard error (a value of
\* the wrong type, or an unknown check type, reported with its index).
C8_FirstNonPassingDecides ==
    (ret.op = "IsReady" /\ pre.kind = "Unstructured" /\ Len(t.readinessChecks) >= 1)
        => LET outcome(c) ==
                   LET v == pre.doc[c.FieldPath]
                   IN  IF c.Type = ReadinessCheckNonEmpty
                       THEN IF v = NoValue THEN "unmet" ELSE "pass"
                       ELSE IF c.Type = ReadinessCheckMatchString
                       THEN IF v = NoValue THEN "unmet"
                            ELSE IF v.k # "string" THEN "error"
                            ELSE IF v.s = c.MatchString THEN "pass" ELSE "unmet"
                       ELSE IF c.Type = ReadinessCheckMatchInteger
                       THEN IF v = NoValue THEN "unmet"
                            ELSE IF v.k # "number" THEN "error"
                            ELSE IF v.n = c.MatchInteger THEN "pass" ELSE "unmet"
                       ELSE "error"
               failing == {i \in 1..Len(t.readinessChecks) :
                              outcome(t.readinessChecks[i]) # "pass"}
           IN  IF failing = {} THEN ret.ready /\ ret.err = NoError
               ELSE LET k == CHOOSE i \in failing : \A j \in failing : i <= j
                    IN  IF outcome(t.readinessChecks[k]) = "unmet"
                        THEN ~ret.ready /\ ret.err = NoError
                        ELSE /\ ~ret.ready /\ ret.err # NoError
                             /\ (ret.err = errFmtUnknownType => ret.idx = k - 1)

\* C9: when Fetch obtains a secret, the mapping returned is the result of
\* the specs in order, the last write of a key winning: a literal spec
\* writes its value under its name; otherwise a spec with no fromSecretKey,
\* or with no data under it, writes nothing; otherwise it writes the data
\* under its name if set, else under fromSecretKey. No other key appears.
C9_ConnectionDetailMerge ==
    (ret.op = "Fetch" /\ Len(getCalls) = 1 /\ store.status = "ok")
        => LET ds == t.connectionDetails
               data(k) == IF k \in DOMAIN store.data THEN store.data[k] ELSE ""
               literal(i) == ds[i].Name.set /\ ds[i].Value.set
               writes(i) == \/ literal(i)
                            \/ /\ ds[i].FromConnectionSecretKey.set
                               /\ data(ds[i].FromConnectionSecretKey.s) # ""
               key(i) == IF ds[i].Name.set THEN ds[i].Name.s
                         ELSE ds[i].FromConnectionSecretKey.s
               val(i) == IF literal(i) THEN ds[i].Value.s
                         ELSE data(ds[i].FromConnectionSecretKey.s)
               W == {i \in 1..Len(ds) : writes(i)}
           IN  /\ ret.err = NoError /\ ~ret.connNil
               /\ DOMAIN ret.conn = {key(i) : i \in W}
               /\ \A i \in W : (\A j \in W : j > i => key(j) # key(i))
                                  => ret.conn[key(i)] = val(i)

C9_Witness ==
    /\ ret.op = "Fetch" /\ Len(getCalls) = 1 /\ store.status = "ok"
    /\ DOMAIN store.data = {"k", "j"} /\ store.data["k"] = "dk"
    /\ Len(t.connectionDetails) = 2
    /\ t.connectionDetails[1] = [Name |-> StringPtr("k"), Value |-> StringPtr("v"),
                                 FromConnectionSecretKey |-> NilString]
    /\ t.connectionDetails[2] = [Name |-> StringPtr("k"), Value |-> NilString,
                                 FromConnectionSecretKey |-> StringPtr("j")]
    /\ DOMAIN ret.conn = {"k"} /\ ret.conn["k"] = "dj"

\* C10: a connectionSecretRef whose two paths resolve to non-empty strings
\* makes the one Get go to that (name, namespace), never to the child's own
\* reference; with no connectionSecretRef the child's own reference is
\* queried; with no reference (the child has none, or a resolved string is
\* empty) Fetch returns (nil, nil) without a Get.
C10_SecretRefPrecedence ==
    ret.op = "Fetch"
        => LET csr == t.connectionSecretRef
               name == pre.doc[csr.NamePath]
               namespace == pre.doc[csr.NamespacePath]
               resolved == csr.set /\ pre.kind = "Unstructured"
                           /\ name # NoValue /\ namespace # NoValue
           IN  /\ (resolved /\ name.k = "string" /\ namespace.k = "string"
                            /\ name.s # "" /\ namespace.s # "")
                     => getCalls = <<[Namespace |-> namespace.s, Name |-> name.s]>>
               /\ (~csr.set /\ pre.ref.set)
                     => getCalls = <<[Namespace |-> pre.ref.namespace, Name |-> pre.ref.name]>>
               /\ (\/ ~csr.set /\ ~pre.ref.set
                   \/ resolved /\ (name = StringValue("") \/ namespace = StringValue("")))
                     => (getCalls = <<>> /\ ret.err = NoError /\ ret.connNil /\ ~ret.panicked)

C10_Witness ==
    /\ ret.op = "Fetch" /\ t.connectionSecretRef.set /\ pre.ref.set
    /\ pre.doc["a"] = StringValue("s") /\ pre.doc["b"] = StringValue("u")
    /\ getCalls = <<[Namespace |-> "u", Name |-> "s"]>>
    /\ ret.err = NoError /\ ~ret.connNil

====
